---- MODULE Spec2Model ----
(***************************************************************************)
(* Model of mlp_483.py: the class-weight computation, train_ANN_model,     *)
(* test_ANN_model and the module-level script that calls them.             *)
(*                                                                         *)
(* Numbers are exact rationals <<n, d>> in lowest terms (d > 0); <<1, 0>>  *)
(* is numpy's inf.  A parameter tensor is one rational (the update rule is *)
(* elementwise).  The network arithmetic and the autograd engine belong to *)
(* the tensor library: a forward pass and a loss are kept as terms over    *)
(* what they were computed from, and the gradient is a fixed function of   *)
(* the parameters and the batch captured by the loss term.                 *)
(***************************************************************************)
EXTENDS Integers, Sequences, FiniteSets, TLC

\* ---------------------------------------------------------------- bounds
\* largest training split of the training scenarios
MaxTrain == 3
\* the batch size handed to both DataLoaders (64 in the source, scaled down)
mini_batch_size == 2
\* largest num_epochs handed to train_ANN_model (10 in the source)
MaxEpochs == 2
\* largest test split of the evaluation scenarios
MaxTest == 3
\* longest training label vector of the class-weight scenarios
MaxLabels == 4
\* the duration, in clock ticks, of the ANN_model.train() call
TrainCallTicks == 1

VARIABLES
    pc,               \* position in the script / in the running function
    y_train, y_test,  \* label vectors of the two splits
    num_epochs,       \* argument of train_ANN_model
    class_counts, total_samples, w0, w1, weights,
    theta, grads, velocity,   \* parameters, .grad accumulators, momentum buffers
    clock, start, end, training_time,
    train_losses, epoch_cnt, perm, pos, batch, output, loss,
    predicted_labels, true_labels, tpos, num_samples, num_correct,
    \* history variables (observers, never read by the program)
    ops,        \* the operations done on the current batch, in order
    processed,  \* the batches processed so far in the current epoch
    batchHist,  \* every training batch drawn, in order
    thetaHist,  \* the parameters after 0, 1, 2, ... optimizer steps
    gradHist,   \* the gradients used by the 1st, 2nd, ... optimizer step
    velHist,    \* the momentum buffers after the 1st, 2nd, ... optimizer step
    workTicks,  \* clock ticks spent in forward, backward and step
    testSeen    \* the test batches processed, in order

vars == <<pc, y_train, y_test, num_epochs, class_counts, total_samples, w0, w1,
          weights, theta, grads, velocity, clock, start, end, training_time,
          train_losses, epoch_cnt, perm, pos, batch, output, loss,
          predicted_labels, true_labels, tpos, num_samples, num_correct,
          ops, processed, batchHist, thetaHist, gradHist, velHist, workTicks, testSeen>>

scriptVars == <<y_train, y_test, num_epochs>>
weightVars == <<class_counts, total_samples, w0, w1, weights>>
modelVars == <<theta, grads, velocity>>
timeVars == <<clock, start, end, training_time>>
trainVars == <<train_losses, epoch_cnt, perm, pos, batch, output, loss>>
testVars == <<predicted_labels, true_labels, tpos, num_samples, num_correct>>
histVars == <<ops, processed, batchHist, thetaHist, gradHist, velHist, workTicks,
             testSeen>>

\* ------------------------------------------------------------- rationals
None == <<>>

Abs(n) == IF n < 0 THEN 0 - n ELSE n

RECURSIVE GCD(_, _)
GCD(a, b) == IF b = 0 THEN a ELSE GCD(b, a % b)

Rat(n, d) ==
    LET g == GCD(Abs(n), Abs(d))
        s == IF d < 0 THEN 0 - 1 ELSE 1
    IN  <<(s * n) \div g, (s * d) \div g>>

Zero == <<0, 1>>
Inf == <<1, 0>>
NaN == <<0, 0>>

RatAdd(a, b) == Rat(a[1] * b[2] + b[1] * a[2], a[2] * b[2])
RatSub(a, b) == Rat(a[1] * b[2] - b[1] * a[2], a[2] * b[2])
RatMul(a, b) == Rat(a[1] * b[1], a[2] * b[2])

\* int / numpy.int64: a zero divisor gives inf (nan for 0/0) and a warning,
\* never an exception
NumpyDiv(n, d) == IF d = 0 THEN (IF n = 0 THEN NaN ELSE Inf) ELSE Rat(n, d)

\* --------------------------------------------------------- class weights
Labels == {0, 1}

LabelVectors(lo, hi) == UNION {[1..n -> Labels] : n \in lo..hi}

\* the labels of a split of n samples in which the classes alternate
Alternating(n) == [i \in 1..n |-> i % 2]

SeqMax(s) == CHOOSE m \in {s[i] : i \in 1..Len(s)} : \A i \in 1..Len(s) : s[i] <= m

\* np.bincount: entry c + 1 counts the occurrences of c, for c up to max(y)
Bincount(y) ==
    IF Len(y) = 0 THEN <<>>
    ELSE [c \in 1..(SeqMax(y) + 1) |-> Cardinality({i \in 1..Len(y) : y[i] = c - 1})]

ClassWeightNoTwo(total, count) == NumpyDiv(total, count)

ClassWeight(total, count) == NumpyDiv(total, 2 * count)

\* ------------------------------------------------------------ the model
Params == {"hidden1.weight", "hidden1.bias", "output.weight", "output.bias"}

PIdx(p) == CASE p = "hidden1.weight" -> 1
             [] p = "hidden1.bias" -> 2
             [] p = "output.weight" -> 3
             [] p = "output.bias" -> 4

\* MLP(...): the initial parameters (one fixed draw of the initialiser)
theta0 == [p \in Params |-> Rat(2 * PIdx(p) - 5, 10)]

alpha == Rat(8, 1000)
gamma == Rat(5, 10)

\* ANN_model(features): the scores, as a term over the parameters and inputs
Forward(th, features) == [params |-> th, x |-> features]

\* loss_func(output, labels): the loss, as a term
LossFunc(out, labels, w) == [of |-> out, y |-> labels, w |-> w]

RECURSIVE SeqSum(_)
SeqSum(s) == IF s = <<>> THEN 0 ELSE s[1] + SeqSum(Tail(s))

Sign(r) == IF r[1] > 0 THEN 1 ELSE 0 - 1

\* autograd: d loss / d p, a function of the parameters and the batch the
\* loss was computed from
Grad(p, l) == Rat(Sign(l.of.params[p]) * (SeqSum(l.of.x) + PIdx(p)), 1)

\* the class scores of one sample under parameters th
Scores(th, x) ==
    LET b == IF th["output.bias"][1] > 0 THEN 1 ELSE 0
    IN  <<(x + b) % 3, (2 * x + b) % 3>>

\* torch.max(output, 1): the index of the first maximal score
Argmax(s) == IF s[2] > s[1] THEN 1 ELSE 0

\* ----------------------------------------------------------- DataLoader
Perms(n) == {f \in [1..n -> 1..n] : \A i, j \in 1..n : f[i] = f[j] => i = j}

Identity(n) == [i \in 1..n |-> i]

Min(a, b) == IF a < b THEN a ELSE b

\* the batch an iterator at position p over sampler order `order` yields
SliceDropLast(order, p) ==
    IF p + mini_batch_size <= Len(order)
    THEN SubSeq(order, p + 1, p + mini_batch_size)
    ELSE <<>>

Slice(order, p) == SubSeq(order, p + 1, Min(p + mini_batch_size, Len(order)))

Gather(y, idx) == [i \in 1..Len(idx) |-> y[idx[i]]]

\* the sampler order of test_dataloader (shuffle=False)
TestOrderShuffled(n) == IF n >= 2 THEN [i \in 1..n |-> n + 1 - i] ELSE Identity(n)

TestOrder(n) == Identity(n)

\* ------------------------------------------------------- statement order
\* the statement that follows statement s in the batch body of train_ANN_model
NextPcStepFirst(s) ==
    CASE s = "zero_grad" -> "forward"
      [] s = "forward" -> "loss"
      [] s = "loss" -> "append"
      [] s = "append" -> "step"
      [] s = "step" -> "backward"
      [] s = "backward" -> "batch"

NextPc(s) ==
    CASE s = "zero_grad" -> "forward"
      [] s = "forward" -> "loss"
      [] s = "loss" -> "append"
      [] s = "append" -> "backward"
      [] s = "backward" -> "step"
      [] s = "step" -> "batch"


\* ------------------------------------------------------------ optimizer
\* optim.SGD(lr=alpha, momentum=gamma): the momentum buffer after one more
\* gradient; the first step stores the gradient itself
MomentumBufNoCarry(v, g) == g

MomentumBuf(v, g) == IF v = None THEN g ELSE RatAdd(RatMul(gamma, v), g)

\* ----------------------------------------------------------- initial states
InitRest ==
    /\ pc = "class_counts"
    /\ class_counts = None /\ total_samples = 0
    /\ w0 = None /\ w1 = None /\ weights = None
    /\ theta = theta0
    /\ grads = [p \in Params |-> Zero]
    /\ velocity = [p \in Params |-> None]
    /\ clock = 0 /\ start = 0 /\ end = 0 /\ training_time = 0
    /\ train_losses = <<>> /\ epoch_cnt = 0 /\ perm = <<>> /\ pos = 0
    /\ batch = <<>> /\ output = None /\ loss = None
    /\ predicted_labels = <<>> /\ true_labels = <<>> /\ tpos = 0
    /\ num_samples = 0 /\ num_correct = 0
    /\ ops = <<>> /\ processed = <<>> /\ batchHist = <<>>
    /\ thetaHist = <<theta0>> /\ gradHist = <<>> /\ velHist = <<>>
    /\ workTicks = 0
    /\ testSeen = <<>>

\* training scenarios: splits of every size, every number of epochs
Init ==
    /\ \E n \in 1..MaxTrain : y_train = Alternating(n)
    /\ y_test = Alternating(mini_batch_size + 1)
    /\ num_epochs \in 0..MaxEpochs
    /\ InitRest

\* class-weight scenarios: every training label vector
InitWeights ==
    /\ y_train \in LabelVectors(1, MaxLabels)
    /\ y_test = Alternating(1)
    /\ num_epochs = 1
    /\ InitRest

\* evaluation scenarios: every test label vector, after one epoch of training
InitTest ==
    /\ y_train = Alternating(mini_batch_size + 1)
    /\ y_test \in LabelVectors(1, MaxTest)
    /\ num_epochs = 1
    /\ InitRest

\* ------------------------------------------------- script: class weights
ComputeClassCounts ==
    /\ pc = "class_counts"
    /\ class_counts' = Bincount(y_train)
    /\ total_samples' = Len(y_train)
    /\ pc' = "w0"
    /\ UNCHANGED <<scriptVars, w0, w1, weights, modelVars, timeVars, trainVars,
                   testVars, histVars>>

\* class_counts[0]: an index past the end raises IndexError
ComputeW0 ==
    /\ pc = "w0"
    /\ IF Len(class_counts) < 1
       THEN pc' = "aborted" /\ w0' = w0
       ELSE pc' = "w1" /\ w0' = ClassWeight(total_samples, class_counts[1])
    /\ UNCHANGED <<scriptVars, class_counts, total_samples, w1, weights, modelVars,
                   timeVars, trainVars, testVars, histVars>>

ComputeW1 ==
    /\ pc = "w1"
    /\ IF Len(class_counts) < 2
       THEN pc' = "aborted" /\ w1' = w1
       ELSE pc' = "loss_func" /\ w1' = ClassWeight(total_samples, class_counts[2])
    /\ UNCHANGED <<scriptVars, class_counts, total_samples, w0, weights, modelVars,
                   timeVars, trainVars, testVars, histVars>>

\* weights = torch.tensor([w0, w1]); loss_func = nn.CrossEntropyLoss(weight=weights)
MakeLossFunc ==
    /\ pc = "loss_func"
    /\ weights' = <<w0, w1>>
    /\ pc' = "train_call"
    /\ UNCHANGED <<scriptVars, class_counts, total_samples, w0, w1, modelVars,
                   timeVars, trainVars, testVars, histVars>>

\* -------------------------------------------------------- train_ANN_model
\* train_losses = []; start; ANN_model.train(); end; training_time
TrainStart ==
    /\ pc = "train_call"
    /\ start' = clock
    /\ clock' = clock + TrainCallTicks
    /\ end' = clock'
    /\ training_time' = end' - start'
    /\ train_losses' = <<>>
    /\ epoch_cnt' = 0
    /\ pc' = "epoch"
    /\ UNCHANGED <<scriptVars, weightVars, modelVars, perm, pos, batch, output, loss,
                   testVars, histVars>>

\* for epoch_cnt in range(num_epochs): enumerate(training_data) makes a new
\* iterator, whose sampler draws a fresh permutation (shuffle=True)
EpochBegin ==
    /\ pc = "epoch"
    /\ epoch_cnt < num_epochs
    /\ perm' \in Perms(Len(y_train))
    /\ pos' = 0
    /\ processed' = <<>>
    /\ pc' = "batch"
    /\ UNCHANGED <<scriptVars, weightVars, modelVars, timeVars, train_losses,
                   epoch_cnt, batch, output, loss, testVars, ops, batchHist,
                   thetaHist, gradHist, velHist, workTicks, testSeen>>

\* the iterator yields the next batch
NextBatch ==
    /\ pc = "batch"
    /\ pos < Len(perm)
    /\ batch' = Slice(perm, pos)
    /\ pos' = pos + mini_batch_size
    /\ ops' = <<>>
    /\ batchHist' = Append(batchHist, batch')
    /\ pc' = "zero_grad"
    /\ UNCHANGED <<scriptVars, weightVars, modelVars, timeVars, train_losses,
                   epoch_cnt, perm, output, loss, testVars, processed, thetaHist,
                   gradHist, velHist, workTicks, testSeen>>

\* the iterator is exhausted: the epoch is over
EpochEnd ==
    /\ pc = "batch"
    /\ pos >= Len(perm)
    /\ epoch_cnt' = epoch_cnt + 1
    /\ pc' = "epoch"
    /\ UNCHANGED <<scriptVars, weightVars, modelVars, timeVars, train_losses,
                   perm, pos, batch, output, loss, testVars, histVars>>

ZeroGradSkip ==
    /\ pc = "zero_grad"
    /\ ops' = Append(ops, "zero_grad")
    /\ pc' = NextPc(pc)
    /\ UNCHANGED <<scriptVars, weightVars, modelVars, timeVars, trainVars, testVars,
                   processed, batchHist, thetaHist, gradHist, velHist, workTicks, testSeen>>

\* optimizer.zero_grad()
ZeroGrad ==
    /\ pc = "zero_grad"
    /\ grads' = [p \in Params |-> Zero]
    /\ ops' = Append(ops, "zero_grad")
    /\ pc' = NextPc(pc)
    /\ UNCHANGED <<scriptVars, weightVars, theta, velocity, timeVars, trainVars,
                   testVars, processed, batchHist, thetaHist, gradHist, velHist, workTicks,
                   testSeen>>

\* output = ANN_model(features)
ForwardPass ==
    /\ pc = "forward"
    /\ output' = Forward(theta, batch)
    /\ clock' = clock + 1
    /\ workTicks' = workTicks + 1
    /\ ops' = Append(ops, "forward")
    /\ pc' = NextPc(pc)
    /\ UNCHANGED <<scriptVars, weightVars, modelVars, start, end, training_time,
                   train_losses, epoch_cnt, perm, pos, batch, loss, testVars,
                   processed, batchHist, thetaHist, gradHist, velHist, testSeen>>

\* loss = loss_func(output, labels)
ComputeLoss ==
    /\ pc = "loss"
    /\ loss' = LossFunc(output, Gather(y_train, batch), weights)
    /\ ops' = Append(ops, "loss")
    /\ pc' = NextPc(pc)
    /\ UNCHANGED <<scriptVars, weightVars, modelVars, timeVars, train_losses,
                   epoch_cnt, perm, pos, batch, output, testVars, processed,
                   batchHist, thetaHist, gradHist, velHist, workTicks, testSeen>>

AppendLossOverwrite ==
    /\ pc = "append"
    /\ train_losses' = <<loss>>
    /\ pc' = NextPc(pc)
    /\ UNCHANGED <<scriptVars, weightVars, modelVars, timeVars, epoch_cnt, perm, pos,
                   batch, output, loss, testVars, histVars>>

\* train_losses.append(loss.item())
AppendLoss ==
    /\ pc = "append"
    /\ train_losses' = Append(train_losses, loss)
    /\ pc' = NextPc(pc)
    /\ UNCHANGED <<scriptVars, weightVars, modelVars, timeVars, epoch_cnt, perm, pos,
                   batch, output, loss, testVars, histVars>>

\* loss.backward(): autograd adds the gradient to every .grad accumulator
Backward ==
    /\ pc = "backward"
    /\ grads' = [p \in Params |-> RatAdd(grads[p], Grad(p, loss))]
    /\ clock' = clock + 1
    /\ workTicks' = workTicks + 1
    /\ ops' = Append(ops, "backward")
    /\ pc' = NextPc(pc)
    /\ UNCHANGED <<scriptVars, weightVars, theta, velocity, start, end,
                   training_time, trainVars, testVars, processed, batchHist,
                   thetaHist, gradHist, velHist, testSeen>>

\* optimizer.step()
Step ==
    /\ pc = "step"
    /\ velocity' = [p \in Params |-> MomentumBuf(velocity[p], grads[p])]
    /\ theta' = [p \in Params |-> RatSub(theta[p], RatMul(alpha, velocity'[p]))]
    /\ clock' = clock + 1
    /\ workTicks' = workTicks + 1
    /\ ops' = Append(ops, "step")
    /\ processed' = Append(processed, batch)
    /\ thetaHist' = Append(thetaHist, theta')
    /\ gradHist' = Append(gradHist, grads)
    /\ velHist' = Append(velHist, velocity')
    /\ pc' = NextPc(pc)
    /\ UNCHANGED <<scriptVars, weightVars, grads, start, end, training_time,
                   trainVars, testVars, batchHist, testSeen>>

TrainReturnTimed ==
    /\ pc = "epoch"
    /\ epoch_cnt >= num_epochs
    /\ end' = clock
    /\ training_time' = clock - start
    /\ pc' = "test_call"
    /\ UNCHANGED <<scriptVars, weightVars, modelVars, clock, start, trainVars,
                   testVars, histVars>>

\* return train_losses, training_time
TrainReturn ==
    /\ pc = "epoch"
    /\ epoch_cnt >= num_epochs
    /\ pc' = "test_call"
    /\ UNCHANGED <<scriptVars, weightVars, modelVars, timeVars, trainVars, testVars,
                   histVars>>

\* --------------------------------------------------------- test_ANN_model
\* predicted_labels = []; true_labels = []; no_grad; eval(); the test iterator
TestStart ==
    /\ pc = "test_call"
    /\ predicted_labels' = <<>>
    /\ true_labels' = <<>>
    /\ tpos' = 0
    /\ pc' = "test_batch"
    /\ UNCHANGED <<scriptVars, weightVars, modelVars, timeVars, trainVars,
                   num_samples, num_correct, histVars>>

TestBatchTraining ==
    /\ pc = "test_batch"
    /\ tpos < Len(y_test)
    /\ LET idx == Slice(TestOrder(Len(y_test)), tpos)
           labels == Gather(y_test, idx)
           predictions == [i \in 1..Len(idx) |-> Argmax(Scores(theta, idx[i]))]
       IN  /\ predicted_labels' = predicted_labels \o predictions
           /\ true_labels' = true_labels \o labels
           /\ num_samples' = Len(labels)
           /\ num_correct' = Cardinality({i \in 1..Len(idx) : predictions[i] = labels[i]})
           /\ testSeen' = Append(testSeen, idx)
    /\ tpos' = tpos + mini_batch_size
    /\ velocity' = [p \in Params |-> MomentumBuf(velocity[p], grads[p])]
    /\ theta' = [p \in Params |-> RatSub(theta[p], RatMul(alpha, velocity'[p]))]
    /\ pc' = "test_batch"
    /\ UNCHANGED <<scriptVars, weightVars, grads, timeVars, trainVars, ops,
                   processed, batchHist, thetaHist, gradHist, velHist, workTicks>>

\* one batch of the evaluation loop: forward, argmax, extend both lists
TestBatch ==
    /\ pc = "test_batch"
    /\ tpos < Len(y_test)
    /\ LET idx == Slice(TestOrder(Len(y_test)), tpos)
           labels == Gather(y_test, idx)
           predictions == [i \in 1..Len(idx) |-> Argmax(Scores(theta, idx[i]))]
       IN  /\ predicted_labels' = predicted_labels \o predictions
           /\ true_labels' = true_labels \o labels
           /\ num_samples' = Len(labels)
           /\ num_correct' = Cardinality({i \in 1..Len(idx) : predictions[i] = labels[i]})
           /\ testSeen' = Append(testSeen, idx)
    /\ tpos' = tpos + mini_batch_size
    /\ pc' = "test_batch"
    /\ UNCHANGED <<scriptVars, weightVars, modelVars, timeVars, trainVars, ops,
                   processed, batchHist, thetaHist, gradHist, velHist, workTicks>>

\* the test iterator is exhausted: print the last batch's figures and return
TestReturn ==
    /\ pc = "test_batch"
    /\ tpos >= Len(y_test)
    /\ pc' = "done"
    /\ UNCHANGED <<scriptVars, weightVars, modelVars, timeVars, trainVars, testVars,
                   histVars>>

Next ==
    \/ ComputeClassCounts
    \/ ComputeW0
    \/ ComputeW1
    \/ MakeLossFunc
    \/ TrainStart
    \/ EpochBegin
    \/ NextBatch
    \/ EpochEnd
    \/ ZeroGrad
    \/ ForwardPass
    \/ ComputeLoss
    \/ AppendLoss
    \/ Backward
    \/ Step
    \/ TrainReturn
    \/ TestStart
    \/ TestBatch
    \/ TestReturn

Spec == Init /\ [][Next]_vars

SpecWeights == InitWeights /\ [][Next]_vars

SpecTest == InitTest /\ [][Next]_vars

\* ---------------------------------------------------------------- helpers
RECURSIVE Flatten(_)
Flatten(ss) == IF ss = <<>> THEN <<>> ELSE ss[1] \o Flatten(Tail(ss))

IsPrefix(s, t) == Len(s) <= Len(t) /\ SubSeq(t, 1, Len(s)) = s

Count(y, c) == Cardinality({i \in 1..Len(y) : y[i] = c})

\* len(DataLoader) over n samples
NumBatches(n) == (n + mini_batch_size - 1) \div mini_batch_size

BodyPcs == {"zero_grad", "forward", "loss", "append", "backward", "step"}
LoopPcs == BodyPcs \cup {"epoch", "batch"}
ReturnedPcs == {"test_call", "test_batch", "done"}

SpecOrder == <<"forward", "loss", "zero_grad", "backward", "step">>
CodeOrder == <<"zero_grad", "forward", "loss", "backward", "step">>

\* the batches `bs` are consecutive full-size pieces of a duplicate-free
\* draw from 1..n, only the last one possibly short; `complete`: all of 1..n
Partition(bs, n, complete) ==
    LET flat == Flatten(bs)
    IN  /\ \A i \in 1..Len(bs) :
              /\ Len(bs[i]) >= 1
              /\ Len(bs[i]) <= mini_batch_size
              /\ (i < Len(bs) => Len(bs[i]) = mini_batch_size)
        /\ \A i \in 1..Len(flat) : flat[i] \in 1..n
        /\ \A i, j \in 1..Len(flat) : flat[i] = flat[j] => i = j
        /\ (complete => {flat[i] : i \in 1..Len(flat)} = 1..n)

\* ------------------------------------------------------------------ claims

\* C1 as stated: once a batch has been processed, the operations done on it
\* were forward, loss, gradient reset, backward, optimizer step, in this order.
C1_SpecOrder == (pc = "batch" /\ ops # <<>>) => ops = SpecOrder

\* C1 amended: the operations on a batch are gradient reset, forward, loss,
\* backward, optimizer step, each once and in this order, and a batch is
\* drawn only after the optimizer step of the batch before it.
C1_CodeOrder ==
    /\ IsPrefix(ops, CodeOrder)
    /\ (pc \in BodyPcs => /\ Len(ops) < Len(CodeOrder)
                          /\ Len(batchHist) = Len(gradHist) + 1)
    /\ (pc \notin BodyPcs => Len(batchHist) = Len(gradHist))
    /\ ((pc = "batch" /\ ops # <<>>) => ops = CodeOrder)

C1_Witness == pc = "batch" /\ ops = CodeOrder /\ Len(batchHist) >= 2

\* C2: at every optimizer step the gradient held for each parameter is the
\* gradient of the loss of the current batch under the current parameters.
C2_NoAccumulation ==
    pc = "step" =>
        /\ loss = LossFunc(Forward(theta, batch), Gather(y_train, batch), weights)
        /\ \A p \in Params : grads[p] = Grad(p, loss)

C2_Witness == pc = "step" /\ epoch_cnt >= 1 /\ Len(gradHist) >= 3

\* C3: when test_ANN_model returns, both lists have the length of the test
\* split, and entry i is the argmax class, respectively the label, of the
\* i-th test sample.
C3_Aligned ==
    pc = "done" =>
        /\ Len(predicted_labels) = Len(y_test)
        /\ Len(true_labels) = Len(y_test)
        /\ \A i \in 1..Len(y_test) :
              /\ predicted_labels[i] = Argmax(Scores(theta, i))
              /\ true_labels[i] = y_test[i]

C3_Witness ==
    /\ pc = "done"
    /\ Len(testSeen) >= 2
    /\ Len(y_test) = 3
    /\ y_test[1] # y_test[3]
    /\ \E i, j \in 1..Len(y_test) : predicted_labels[i] # predicted_labels[j]

\* C4: no step of test_ANN_model changes the parameters, the gradient
\* accumulators or the momentum buffers, and the parameters change only in
\* an optimizer step of the training loop.
C4_EvalReadOnly ==
    [][ /\ (pc \in {"test_call", "test_batch"} => UNCHANGED <<theta, grads, velocity>>)
        /\ (theta' # theta => pc = "step") ]_vars

C4_Witness ==
    /\ pc = "done"
    /\ Len(testSeen) >= 2
    /\ theta # theta0
    /\ \E p \in Params : velocity[p] # None /\ grads[p] # Zero

\* C5: the k-th loss recorded is the loss of the k-th batch drawn, computed
\* with the parameters as they are after k - 1 optimizer steps, and the list
\* returned holds num_epochs times the number of batches per epoch.
C5_LossPerBatch ==
    /\ Len(train_losses) <= Len(batchHist)
    /\ \A k \in 1..Len(train_losses) :
          train_losses[k] =
              LossFunc(Forward(thetaHist[k], batchHist[k]),
                       Gather(y_train, batchHist[k]), weights)
    /\ (pc \in ReturnedPcs =>
          Len(train_losses) = num_epochs * NumBatches(Len(y_train)))

C5_Witness ==
    /\ pc = "test_call"
    /\ num_epochs = 2
    /\ Len(train_losses) = 4
    /\ thetaHist[4] # thetaHist[3]

\* C6 as stated: with a class absent from the training labels the run never
\* processes a training batch with an inf or NaN class weight.
C6_AbsentClassStopsRun ==
    ((\E c \in Labels : Count(y_train, c) = 0) /\ pc \in BodyPcs) =>
        \A i \in 1..Len(weights) : weights[i] # Inf /\ weights[i] # NaN

\* C7: when both classes occur, w[c] * 2 * count(c) = N_total for both
\* classes; labels [0,0,0,1] give w0 = 4/6 and w1 = 2.
C7_ClassWeights ==
    (weights # None /\ \A c \in Labels : Count(y_train, c) > 0) =>
        /\ \A c \in Labels :
              /\ weights[c + 1][2] > 0
              /\ weights[c + 1][1] * 2 * Count(y_train, c)
                     = Len(y_train) * weights[c + 1][2]
        /\ (y_train = <<0, 0, 0, 1>> => weights = <<Rat(4, 6), Rat(2, 1)>>)

C7_Witness == weights # None /\ y_train = <<0, 0, 0, 1>> /\ pc = "train_call"

\* C8: every optimizer step so far applied, to every parameter, v <- gamma*v
\* + g and then theta <- theta - alpha*v, from v = 0 before the first step and
\* with v carried from each step to the next; the first step gives
\* theta0 - alpha*g_1.
C8_Momentum ==
    LET k == Len(gradHist)
    IN  /\ Len(thetaHist) = k + 1 /\ Len(velHist) = k
        /\ thetaHist[1] = theta0 /\ thetaHist[k + 1] = theta
        /\ \A p \in Params :
              /\ velocity[p] = (IF k = 0 THEN None ELSE velHist[k][p])
              /\ \A j \in 1..k :
                    /\ velHist[j][p] =
                          RatAdd(RatMul(gamma, IF j = 1 THEN Zero ELSE velHist[j - 1][p]),
                                 gradHist[j][p])
                    /\ thetaHist[j + 1][p] =
                          RatSub(thetaHist[j][p], RatMul(alpha, velHist[j][p]))
              /\ (k > 0 => thetaHist[2][p]
                             = RatSub(theta0[p], RatMul(alpha, gradHist[1][p])))

C8_Witness ==
    /\ pc = "batch"
    /\ epoch_cnt >= 1
    /\ Len(gradHist) >= 3
    /\ \E p \in Params : velocity[p] # gradHist[Len(gradHist)][p]

\* C9: the batches processed in an epoch are disjoint, hold at most
\* mini_batch_size samples, only the last may hold fewer, and at the end of
\* the epoch they cover the training split; the same for the test pass, in
\* dataset order.
C9_Partition ==
    /\ Partition(processed, Len(y_train),
                 epoch_cnt > 0 /\ pc \in ReturnedPcs \cup {"epoch"})
    /\ Partition(testSeen, Len(y_test), pc = "done")
    /\ IsPrefix(Flatten(testSeen), Identity(Len(y_test)))

C9_Witness ==
    /\ pc = "done"
    /\ Len(processed) = 2
    /\ Len(processed[2]) < mini_batch_size
    /\ Len(testSeen) = 2
    /\ Flatten(processed) # Identity(Len(y_train))

\* C10: training_time is end - start, and every tick spent in a forward
\* pass, a backward pass or an optimizer step lies after the end reading.
C10_TimeBeforeLoop ==
    pc \in LoopPcs \cup ReturnedPcs =>
        /\ training_time = end - start
        /\ clock - end = workTicks
        /\ training_time = TrainCallTicks

C10_Witness ==
    /\ pc = "test_call"
    /\ training_time = TrainCallTicks
    /\ workTicks >= 6
    /\ clock - start > training_time

====
